---------------------------- MODULE Spec2Model ----------------------------
(***************************************************************************)
(* State-machine model of main_web.py: the /start, /events and /download   *)
(* handlers, the per-job download worker (run_download_job), the progress  *)
(* hook and the background cleaner, over the shared job table, the         *)
(* rate-limit mapping and the download root on disk.                       *)
(*                                                                         *)
(* Time is counted in units of 1800 s: the cleaner's retention of 30*60 s  *)
(* is 1 unit and the default RATE_LIMIT_WINDOW of 60*60 s is 2 units.      *)
(* Strings the code inspects (paths, file names, URLs, error texts) are    *)
(* sequences of one-character strings; a Python None or an absent key read *)
(* with .get() is the empty sequence, a present value x is <<x>>.          *)
(***************************************************************************)
EXTENDS Integers, Sequences, FiniteSets, TLC

\* ------------------------------------------------------------- bounds
\* Largest clock value (units of 1800 s).
MaxTime == 2
\* Number of job ids uuid4 hands out in one run.
MaxJobs == 2
\* Largest configured RATE_LIMIT_COUNT.
MaxCeiling == 2
\* Events one /events stream is followed for.
MaxEvents == 4
\* Jobs admitted in a run of the download pipeline.
MaxPipeline == 1

\* ------------------------------------------------------- configuration
RATE_LIMIT_WINDOW == 2
RATE_LIMIT_CONCURRENT == 1
RETENTION == 1

None == <<>>
Some(x) == <<x>>

\* The clients get_client_ip tells apart.
Clients == {"10.0.0.1", "10.0.0.2"}
\* The request-handling threads of the server (threaded=True).
Threads == {1, 2}
\* The request thread of the specifications that handle one request at a time.
Serial == {1}
JobIds == 1..MaxJobs

\* ------------------------------------------------------------- strings
IsPrefix(p, s) == Len(p) <= Len(s) /\ SubSeq(s, 1, Len(p)) = p
IsSuffix(p, s) == Len(p) <= Len(s) /\ SubSeq(s, Len(s) - Len(p) + 1, Len(s)) = p
Contains(p, s) == \E i \in 0..(Len(s) - Len(p)) : SubSeq(s, i + 1, i + Len(p)) = p

LowerChar(c) ==
    CASE c = "A" -> "a" [] c = "B" -> "b" [] c = "C" -> "c" [] c = "D" -> "d"
      [] c = "E" -> "e" [] c = "F" -> "f" [] c = "G" -> "g" [] c = "H" -> "h"
      [] c = "I" -> "i" [] c = "J" -> "j" [] c = "K" -> "k" [] c = "L" -> "l"
      [] c = "M" -> "m" [] c = "N" -> "n" [] c = "O" -> "o" [] c = "P" -> "p"
      [] c = "Q" -> "q" [] c = "R" -> "r" [] c = "S" -> "s" [] c = "T" -> "t"
      [] c = "U" -> "u" [] c = "V" -> "v" [] c = "W" -> "w" [] c = "X" -> "x"
      [] c = "Y" -> "y" [] c = "Z" -> "z" [] OTHER -> c
Lower(s) == [i \in 1..Len(s) |-> LowerChar(s[i])]

\* ---------------------------------------------------------------- paths
\* os.path.join(os.path.dirname(__file__), 'downloads')
BASE_DOWNLOAD_DIR == <<"d", "l">>
PathJoin(a, b) == a \o <<"/">> \o b
\* uuid.uuid4().hex: every id has the same number of hex digits.
HexDigits == <<"0", "1", "2", "3", "4", "5", "6", "7", "8", "9", "a", "b", "c", "d", "e", "f">>
UuidHex(n) == <<HexDigits[(n \div 16) + 1], HexDigits[(n % 16) + 1]>>
Basename(p) ==
    LET seps == {i \in 1..Len(p) : p[i] = "/"}
        last == IF seps = {} THEN 0 ELSE CHOOSE i \in seps : \A k \in seps : k <= i
    IN  SubSeq(p, last + 1, Len(p))

VARIABLES
    now,          \* time.time(), in units of 1800 s
    RATE_LIMIT_COUNT, \* the configured ceiling (environment, read at import)
    API_KEY,      \* the configured key, None when INSTAWEB_API_KEY is unset
    rate_limit,   \* client -> sequence of admitted timestamps
    jobs,         \* the job table: job id -> record
    nextId,       \* ids uuid4 has handed out so far, plus one
    disk,         \* the download root: entry name -> [mtime, files]
    req,          \* per request thread: the /start request it is handling
    worker,       \* per job id: where its run_download_job thread stands
    cleaner,      \* the background_cleaner thread
    stream,       \* the /events generator
    dl,           \* the /download request
    admitted      \* history: client -> timestamps check_rate_limit admitted

vars == <<now, RATE_LIMIT_COUNT, API_KEY, rate_limit, jobs, nextId, disk, req,
          worker, cleaner, stream, dl, admitted>>

\* --------------------------------------------------------------- inputs
\* What a /start request carries: the client address, the key (header or JSON
\* field) and the URL as urlparse splits it (given = FALSE: no "url" field).
Keys == {None, Some("k1"), Some("k2")}
Url(scheme, netloc, path) == [given |-> TRUE, scheme |-> scheme, netloc |-> netloc, path |-> path]
NoUrl == [given |-> FALSE, scheme |-> "", netloc |-> <<>>, path |-> <<>>]
ReelUrl == Url("https", <<"w", "w", "w", ".", "i", "n", "s", "t", "a", "g", "r", "a", "m", ".", "c", "o", "m">>, <<"/", "r", "e", "e", "l", "/", "x">>)
Urls ==
    { NoUrl, ReelUrl,
      Url("https", <<"M", ".", "I", "n", "s", "t", "a", "g", "r", "a", "m", ".", "C", "O", "M">>, <<"/", "u", "/", "R", "e", "e", "l", "s">>),
      Url("https", <<"e", "x", "a", "m", "p", "l", "e", ".", "c", "o", "m">>, <<"/", "f", "o", "o">>),
      Url("ftp", <<"i", "n", "s", "t", "a", "g", "r", "a", "m", ".", "c", "o", "m">>, <<"/", "p", "/", "x">>),
      Url("https", <<"i", "n", "s", "t", "a", "g", "r", "a", "m", ".", "c", "o", "m">>, <<"/", "a", "c", "c", "o", "u", "n", "t", "s">>),
      Url("https", <<"x", "i", "n", "s", "t", "a", "g", "r", "a", "m", ".", "c", "o", "m">>, <<"/", "p", "/", "x">>) }

\* ------------------------------------------------------ pure functions
\* The host test without the dot: any host that ends in "instagram.com".
is_valid_instagram_url_nodot(url) ==
    IF url.scheme \notin {"http", "https"} THEN FALSE
    ELSE LET host == Lower(url.netloc)
             path == Lower(url.path)
         IN  IF ~IsSuffix(<<"i", "n", "s", "t", "a", "g", "r", "a", "m", ".", "c", "o", "m">>, host) THEN FALSE
             ELSE Contains(<<"/", "r", "e", "e", "l">>, path) \/ Contains(<<"/", "p", "/">>, path) \/ Contains(<<"/", "t", "v", "/">>, path)

is_valid_instagram_url(url) ==
    IF url.scheme \notin {"http", "https"} THEN FALSE
    ELSE LET host == Lower(url.netloc)
             path == Lower(url.path)
         IN  IF ~(host = <<"i", "n", "s", "t", "a", "g", "r", "a", "m", ".", "c", "o", "m">> \/ IsSuffix(<<".", "i", "n", "s", "t", "a", "g", "r", "a", "m", ".", "c", "o", "m">>, host)) THEN FALSE
             ELSE IF \E p \in {<<"/", "r", "e", "e", "l", "/">>, <<"/", "r", "e", "e", "l", "s", "/">>, <<"/", "p", "/">>, <<"/", "t", "v", "/">>} : IsPrefix(p, path) THEN TRUE
             ELSE IF Contains(<<"/", "r", "e", "e", "l">>, path) \/ Contains(<<"/", "r", "e", "e", "l", "s">>, path)
                     \/ Contains(<<"/", "p", "/">>, path) \/ Contains(<<"/", "t", "v", "/">>, path) THEN TRUE
             ELSE FALSE

\* "if not key or key != API_KEY", reached only when API_KEY is configured.
KeyRejected(key) == API_KEY # None /\ (key = None \/ key # API_KEY)

\* A timestamp exactly one window old still counted.
InWindow_inclusive(nowv, t) == nowv - t <= RATE_LIMIT_WINDOW
\* check_rate_limit, line 108: the timestamps still inside the window.
InWindow(nowv, t) == nowv - t < RATE_LIMIT_WINDOW
PruneTimes(times, nowv) == SelectSeq(times, LAMBDA x : InWindow(nowv, x))
\* check_rate_limit, line 109.
RateLimited(times) == Len(times) >= RATE_LIMIT_COUNT

\* check_concurrent_limit: defined in the source, called by no handler.
check_concurrent_limit(ip) ==
    Cardinality({j \in DOMAIN jobs : jobs[j].ip = ip /\ jobs[j].status \in {"queued", "running"}})
        < RATE_LIMIT_CONCURRENT

Progress(status, downloaded, total, percent, eta) ==
    [status |-> status, downloaded |-> downloaded, total |-> total, percent |-> percent,
     eta |-> eta, message |-> None]
PlainProgress(status) == Progress(status, None, None, None, None)
\* Line 171: the progress of a hook call with status error.
ErrorProgress(errmsg) == [PlainProgress("error") EXCEPT !.message = errmsg]

\* The record /start puts in the table (the fields a later step reads).
NewJob(ip) ==
    [status |-> "queued", progress |-> PlainProgress("queued"), ip |-> ip,
     temp_dir |-> None, filepath |-> None, filename |-> None, size |-> None,
     error |-> None]

\* ----------------------------------------------------------------- Init
\* A request thread between requests; key, url, ip and code are those of the
\* request it answered last (code 0: none yet).
\* serial is the parity of the number of requests it has answered.
IdleReq == [pc |-> "idle", key |-> None, url |-> NoUrl, ip |-> "", code |-> 0, serial |-> 0,
            times |-> <<>>, at |-> 0]
NoExc == [type |-> "", msg |-> <<>>]
\* skipped: the progress callback has returned at line 152, the record absent.
IdleWorker == [pc |-> "none", produced |-> None, exc |-> NoExc, skipped |-> FALSE]
IdleCleaner == [pc |-> "sleep", cutoff |-> 0, todo |-> {}, cur |-> 0]
IdleStream == [pc |-> "idle", job |-> 0, issued |-> FALSE, last |-> None, emitted |-> <<>>]
IdleDl == [pc |-> "idle", job |-> 0, filepath |-> None, filename |-> None, code |-> 0, seen |-> ""]

\* The state after import.  The job table of an earlier process is gone, the
\* directory it left in the download root (entry 0) is still there.
Init ==
    /\ now = 0
    /\ RATE_LIMIT_COUNT = MaxCeiling
    /\ API_KEY = None
    /\ rate_limit = [c \in Clients |-> <<>>]
    /\ jobs = <<>>
    /\ nextId = 1
    /\ disk = (0 :> [mtime |-> 0, files |-> {}])
    /\ req = [t \in Threads |-> IdleReq]
    /\ worker = [j \in JobIds |-> IdleWorker]
    /\ cleaner = IdleCleaner
    /\ stream = IdleStream
    /\ dl = IdleDl
    /\ admitted = [c \in Clients |-> <<>>]

\* The clock moves on; every thread may be overtaken by any amount of time.
Tick ==
    /\ now < MaxTime
    /\ now' = now + 1
    /\ UNCHANGED <<RATE_LIMIT_COUNT, API_KEY, rate_limit, jobs, nextId, disk, req,
                   worker, cleaner, stream, dl, admitted>>

\* --------------------------------------------------------------- /start
Respond(t, key, url, ip, code) ==
    req' = [req EXCEPT ![t] = [pc |-> "idle", key |-> key, url |-> url, ip |-> ip,
                               code |-> code, serial |-> 1 - req[t].serial,
                               times |-> <<>>, at |-> 0]]

\* check_rate_limit, lines 105-113, when no other thread runs between its
\* read and its write of rate_limit: the stored list for ip after the call.
RateLimitAfter(ip) ==
    LET times == PruneTimes(rate_limit[ip], now)
    IN  IF RateLimited(times) THEN rate_limit[ip] ELSE Append(times, now)

\* start, lines 357-395, handled without another request in between: the
\* three checks in the order of the code, then the record and the worker.
Start(t, ip, key, url, pool) ==
    /\ req[t].pc = "idle"
    /\    IF KeyRejected(key)
          THEN /\ Respond(t, key, url, "", 401)
               /\ UNCHANGED <<rate_limit, admitted, jobs, worker, nextId>>
          ELSE IF ~url.given \/ ~is_valid_instagram_url(url)
          THEN /\ Respond(t, key, url, "", 400)
               /\ UNCHANGED <<rate_limit, admitted, jobs, worker, nextId>>
          ELSE IF RateLimited(PruneTimes(rate_limit[ip], now))
          THEN /\ Respond(t, key, url, ip, 429)
               /\ UNCHANGED <<rate_limit, admitted, jobs, worker, nextId>>
          ELSE /\ nextId <= pool
               /\ rate_limit' = [rate_limit EXCEPT ![ip] = RateLimitAfter(ip)]
               /\ admitted' = [admitted EXCEPT ![ip] = Append(@, now)]
               /\ jobs' = (nextId :> NewJob(ip)) @@ jobs
               /\ worker' = [worker EXCEPT ![nextId].pc = "start"]
               /\ nextId' = nextId + 1
               /\ Respond(t, key, url, ip, 200)
    /\ UNCHANGED <<now, RATE_LIMIT_COUNT, API_KEY, disk, cleaner, stream, dl>>

\* start, lines 357-374, and check_rate_limit, lines 106-108, on a thread that
\* other request threads may overtake: the key and the URL are checked, then
\* the time is read and the client's list is read and pruned into the local
\* list times; rate_limit has no lock.
StartCheck(t, ip, key, url) ==
    /\ req[t].pc = "idle"
    /\ IF KeyRejected(key) THEN Respond(t, key, url, "", 401)
       ELSE IF ~url.given \/ ~is_valid_instagram_url(url) THEN Respond(t, key, url, "", 400)
       ELSE req' = [req EXCEPT ![t] = [pc |-> "check", key |-> key, url |-> url, ip |-> ip,
                                       code |-> 0, serial |-> req[t].serial,
                                       times |-> PruneTimes(rate_limit[ip], now),
                                       at |-> now]]
    /\ UNCHANGED <<now, RATE_LIMIT_COUNT, API_KEY, rate_limit, jobs, nextId, disk,
                   worker, cleaner, stream, dl, admitted>>

\* check_rate_limit, lines 109-113, and start, lines 373-395: the local list is
\* compared with the ceiling; under it, the time read at line 106 is appended,
\* the local list is stored and the job is created.
StartAdmit(t, pool) ==
    /\ req[t].pc = "check"
    /\ IF RateLimited(req[t].times)
       THEN /\ Respond(t, req[t].key, req[t].url, req[t].ip, 429)
            /\ UNCHANGED <<rate_limit, admitted, jobs, worker, nextId>>
       ELSE /\ nextId <= pool
            /\ rate_limit' = [rate_limit EXCEPT ![req[t].ip] = Append(req[t].times, req[t].at)]
            /\ admitted' = [admitted EXCEPT ![req[t].ip] = Append(@, req[t].at)]
            /\ jobs' = (nextId :> NewJob(req[t].ip)) @@ jobs
            /\ worker' = [worker EXCEPT ![nextId].pc = "start"]
            /\ nextId' = nextId + 1
            /\ Respond(t, req[t].key, req[t].url, req[t].ip, 200)
    /\ UNCHANGED <<now, RATE_LIMIT_COUNT, API_KEY, disk, cleaner, stream, dl>>

\* --------------------------------------------------------------- engine
\* What yt-dlp may raise from extract_info: the exception class and str(de).
EngineErrors ==
    { [type |-> "DownloadError", msg |-> <<"H", "T", "T", "P", " ", "4", "0", "3", " ", "F", "o", "r", "b", "i", "d", "d", "e", "n">>],
      [type |-> "DownloadError", msg |-> <<"L", "o", "g", "i", "n", "_", "R", "e", "q", "u", "i", "r", "e", "d">>],
      [type |-> "DownloadError", msg |-> <<"P", "r", "i", "v", "a", "t", "e", " ", "p", "o", "s", "t">>],
      [type |-> "DownloadError", msg |-> <<"U", "n", "s", "u", "p", "p", "o", "r", "t", "e", "d", " ", "U", "R", "L">>],
      [type |-> "FileNotFoundError", msg |-> <<"N", "o", " ", "s", "u", "c", "h", " ", "f", "i", "l", "e", ":", " ", "f", "f", "m", "p", "e", "g">>] }
\* The files extract_info may leave in the working directory.
EngineOutputs ==
    { {}, {[name |-> <<"v", ".", "M", "P", "4">>, size |-> 1024]}, {[name |-> <<"v", ".", "w", "e", "b", "m">>, size |-> 1024]} }
\* What yt-dlp may pass to the progress hook.
HookEvents ==
    { [status |-> "downloading", total_bytes |-> Some(4), total_bytes_estimate |-> None,
       downloaded_bytes |-> 2, eta |-> Some(1), errmsg |-> None],
      [status |-> "downloading", total_bytes |-> None, total_bytes_estimate |-> None,
       downloaded_bytes |-> 2, eta |-> None, errmsg |-> None],
      [status |-> "finished", total_bytes |-> None, total_bytes_estimate |-> None,
       downloaded_bytes |-> 0, eta |-> None, errmsg |-> None],
      [status |-> "error", total_bytes |-> None, total_bytes_estimate |-> None,
       downloaded_bytes |-> 0, eta |-> None, errmsg |-> Some("e")] }

AUTH_TEXT == "Instagram requires login for this content. Unable to download without authentication."
GENERIC_TEXT == "Failed to download media. The URL may be private or invalid."
FFMPEG_TEXT == "ffmpeg not found or not executable. Please install ffmpeg."
UNEXPECTED_TEXT == "Unexpected error during download."
NOT_FOUND_TEXT == "Download finished but output file not found."
SERVER_TEXT == "Server error while processing the download."

login_keywords ==
    { <<"l", "o", "g", "i", "n">>, <<"4", "0", "3">>, <<"f", "o", "r", "b", "i", "d", "d", "e", "n">>, <<"p", "r", "i", "v", "a", "t", "e">>,
      <<"a", "u", "t", "h", "e", "n", "t", "i", "c", "a", "t", "i", "o", "n">>, <<"l", "o", "g", "i", "n", "_", "r", "e", "q", "u", "i", "r", "e", "d">>,
      <<"n", "o", "t", " ", "a", "u", "t", "h", "o", "r", "i", "z", "e", "d">>, <<"p", "l", "e", "a", "s", "e", " ", "s", "i", "g", "n", " ", "i", "n">> }

\* Lines 297-301: the text the first handler chooses for str(de).
Classify(msg) ==
    IF \E k \in login_keywords : Contains(k, Lower(msg)) THEN AUTH_TEXT ELSE GENERIC_TEXT

\* issubclass(type, cls) for the exception classes of the except clauses.
IsInstance(type, cls) == cls = "Exception" \/ type = cls

\* The except clauses of lines 291-319 in the order Python tries them; the
\* first one that matches handles the exception.
HandlerText(exc) ==
    IF IsInstance(exc.type, "Exception") THEN Classify(exc.msg)
    ELSE IF IsInstance(exc.type, "FileNotFoundError") THEN FFMPEG_TEXT
    ELSE UNEXPECTED_TEXT

\* final_ext of a request with the default format.
final_ext == <<"m", "p", "4">>

TempDir(j) == PathJoin(BASE_DOWNLOAD_DIR, UuidHex(j))
\* The files of the download root that have this path.
FilesAt(path) ==
    UNION { {f \in disk[e].files : PathJoin(TempDir(e), f.name) = path} : e \in DOMAIN disk }
\* os.path.getsize inside try/except (lines 340-343): None when it raises.
GetSize(path) == IF FilesAt(path) = {} THEN None
                 ELSE Some((CHOOSE f \in FilesAt(path) : TRUE).size)

\* ---------------------------------------------------------------- worker
\* A write that puts the record back when the id is not in the table.
WorkerWrite_insert(j, exc, fields) ==
    /\ jobs' = IF j \in DOMAIN jobs THEN [jobs EXCEPT ![j] = fields @@ jobs[j]]
               ELSE (j :> (fields @@ NewJob(""))) @@ jobs
    /\ worker' = [worker EXCEPT ![j].pc = "done", ![j].exc = exc]

\* A write "jobs[job_id][...] = ..." under jobs_lock: KeyError when the id is
\* not in the table.  Inside the outer try the KeyError reaches the handler of
\* line 345, whose own write (line 348) raises KeyError again, now uncaught.
\* exc is the exception the worker is handling (NoExc: none).
WorkerWrite(j, exc, fields) ==
    IF j \in DOMAIN jobs
    THEN /\ jobs' = [jobs EXCEPT ![j] = fields @@ jobs[j]]
         /\ worker' = [worker EXCEPT ![j].pc = "done", ![j].exc = exc]
    ELSE /\ jobs' = jobs
         /\ worker' = [worker EXCEPT ![j].pc = "crashed", ![j].exc = exc]

\* run_download_job, lines 225-230: the working directory is created and the
\* job is marked running.
WorkerStart(j) ==
    /\ worker[j].pc = "start"
    /\ disk' = IF j \in DOMAIN disk THEN disk
               ELSE (j :> [mtime |-> now, files |-> {}]) @@ disk
    /\ IF j \in DOMAIN jobs
       THEN /\ jobs' = [jobs EXCEPT ![j] = [temp_dir |-> TempDir(j), status |-> "running",
                                             progress |-> PlainProgress("started")] @@ jobs[j]]
            /\ worker' = [worker EXCEPT ![j].pc = "engine"]
       ELSE /\ jobs' = jobs
            /\ worker' = [worker EXCEPT ![j].pc = "crashed"]
    /\ UNCHANGED <<now, RATE_LIMIT_COUNT, API_KEY, rate_limit, nextId, req, cleaner,
                   stream, dl, admitted>>

\* yt_progress_hook's hook(d), called by the engine while it runs.
HookProgress(d) ==
    LET total == IF d.total_bytes # None /\ d.total_bytes[1] # 0 THEN d.total_bytes
                 ELSE d.total_bytes_estimate
        percent == IF total # None /\ total[1] # 0
                   THEN Some((d.downloaded_bytes * 100) \div total[1]) ELSE None
    IN  Progress("downloading", Some(d.downloaded_bytes), total, percent, d.eta)

\* The callback writing through jobs.setdefault(job_id, {}).
ProgressHook_setdefault(j) ==
    /\ worker[j].pc = "engine"
    /\ \E d \in HookEvents :
          IF j \notin DOMAIN jobs
          THEN /\ jobs' = (j :> [progress |-> PlainProgress(d.status)]) @@ jobs
               /\ worker' = [worker EXCEPT ![j].skipped = TRUE]
          ELSE /\ worker' = worker
               /\ IF d.status = "downloading"
                  THEN jobs' = [jobs EXCEPT ![j].progress = HookProgress(d)]
                  ELSE IF d.status = "finished"
                  THEN jobs' = [jobs EXCEPT ![j].progress = PlainProgress("finished")]
                  ELSE IF d.status = "error"
                  THEN jobs' = [jobs EXCEPT ![j].progress = ErrorProgress(d.errmsg)]
                  ELSE jobs' = jobs
    /\ UNCHANGED <<now, RATE_LIMIT_COUNT, API_KEY, rate_limit, nextId, disk, req,
                   cleaner, stream, dl, admitted>>

ProgressHook(j) ==
    /\ worker[j].pc = "engine"
    /\ \E d \in HookEvents :
          IF j \notin DOMAIN jobs
          THEN jobs' = jobs /\ worker' = [worker EXCEPT ![j].skipped = TRUE]
          ELSE /\ worker' = worker
               /\ IF d.status = "downloading"
                  THEN jobs' = [jobs EXCEPT ![j].progress = HookProgress(d)]
                  ELSE IF d.status = "finished"
                  THEN jobs' = [jobs EXCEPT ![j].progress = PlainProgress("finished")]
                  ELSE IF d.status = "error"
                  THEN jobs' = [jobs EXCEPT ![j].progress = ErrorProgress(d.errmsg)]
                  ELSE jobs' = jobs
    /\ UNCHANGED <<now, RATE_LIMIT_COUNT, API_KEY, rate_limit, nextId, disk, req,
                   cleaner, stream, dl, admitted>>

\* extract_info raises (line 290): the handler that catches it sets the error
\* and the worker returns (lines 291-319).
EngineRaises(j) ==
    /\ worker[j].pc = "engine"
    /\ \E exc \in EngineErrors :
          WorkerWrite(j, exc, [status |-> "error", error |-> Some(HandlerText(exc))])
    /\ UNCHANGED <<now, RATE_LIMIT_COUNT, API_KEY, rate_limit, nextId, disk, req,
                   cleaner, stream, dl, admitted>>

\* os.walk(temp_dir), lines 321-328: the first file whose lowered name ends
\* with final_ext; None when there is none (or the directory is gone).
Produced(j, d) ==
    IF j \notin DOMAIN d THEN None
    ELSE LET hits == {f \in d[j].files : IsSuffix(final_ext, Lower(f.name))}
         IN  IF hits = {} THEN None
             ELSE PathJoin(TempDir(j), (CHOOSE f \in hits : TRUE).name)

\* extract_info returns (line 290) having left its files in the working
\* directory, and the directory is searched (lines 321-334).
EngineReturns(j) ==
    /\ worker[j].pc = "engine"
    /\ \E out \in EngineOutputs :
          /\ disk' = IF out = {} THEN disk
                     ELSE (j :> [mtime |-> now,
                                 files |-> out \cup (IF j \in DOMAIN disk THEN disk[j].files ELSE {})])
                          @@ disk
          /\ IF Produced(j, disk') = None
             THEN WorkerWrite(j, NoExc, [status |-> "error", error |-> Some(NOT_FOUND_TEXT)])
             ELSE /\ worker' = [worker EXCEPT ![j].pc = "finish", ![j].produced = Produced(j, disk')]
                  /\ jobs' = jobs
    /\ UNCHANGED <<now, RATE_LIMIT_COUNT, API_KEY, rate_limit, nextId, req, cleaner,
                   stream, dl, admitted>>

\* Lines 336-343: status and the result fields, under one acquisition of
\* jobs_lock.
WorkerFinish(j) ==
    /\ worker[j].pc = "finish"
    /\ WorkerWrite(j, NoExc, [status |-> "ready", filepath |-> worker[j].produced,
                       filename |-> Basename(worker[j].produced),
                       size |-> GetSize(worker[j].produced)])
    /\ UNCHANGED <<now, RATE_LIMIT_COUNT, API_KEY, rate_limit, nextId, disk, req,
                   cleaner, stream, dl, admitted>>

\* --------------------------------------------------------------- cleaner
\* The test of line 185 with twice the retention.
Expired_late(mtime, cutoff) == mtime < cutoff - RETENTION
\* The test of line 185 taking an entry exactly as old as the retention.
Expired_inclusive(mtime, cutoff) == mtime <= cutoff
\* Line 185: the entry is older than the retention.
Expired(mtime, cutoff) == mtime < cutoff
\* Line 192: the records a deleted path takes with it.
UnderPath(job, path) == job.temp_dir = path \/ IsPrefix(path, job.filepath)

\* After an entry: the next one, or time.sleep(60) when the listing is done.
CleanerNext(todo, cutoff) ==
    IF todo = {} THEN IdleCleaner
    ELSE [pc |-> "scan", cutoff |-> cutoff, todo |-> todo, cur |-> 0]

\* Lines 178-181: a sweep starts: the cutoff is fixed and the root is listed.
CleanerSweep ==
    /\ cleaner.pc = "sleep"
    /\ cleaner' = CleanerNext(DOMAIN disk, now - RETENTION)
    /\ UNCHANGED <<now, RATE_LIMIT_COUNT, API_KEY, rate_limit, jobs, nextId, disk,
                   req, worker, stream, dl, admitted>>

\* Lines 182-185: the next entry's mtime is read and compared.
CleanerStat ==
    /\ cleaner.pc = "scan"
    /\ \E e \in cleaner.todo :
          IF e \in DOMAIN disk /\ Expired(disk[e].mtime, cleaner.cutoff)
          THEN cleaner' = [pc |-> "remove", cutoff |-> cleaner.cutoff,
                           todo |-> cleaner.todo \ {e}, cur |-> e]
          ELSE cleaner' = CleanerNext(cleaner.todo \ {e}, cleaner.cutoff)
    /\ UNCHANGED <<now, RATE_LIMIT_COUNT, API_KEY, rate_limit, jobs, nextId, disk,
                   req, worker, stream, dl, admitted>>

\* Lines 186-189: shutil.rmtree of the expired entry.
CleanerRemove ==
    /\ cleaner.pc = "remove"
    /\ disk' = [e \in DOMAIN disk \ {cleaner.cur} |-> disk[e]]
    /\ cleaner' = [cleaner EXCEPT !.pc = "pop"]
    /\ UNCHANGED <<now, RATE_LIMIT_COUNT, API_KEY, rate_limit, jobs, nextId, req,
                   worker, stream, dl, admitted>>

\* The records under the deleted path marked as failed instead of removed.
CleanerPop_mark ==
    /\ cleaner.pc = "pop"
    /\ jobs' = [j \in DOMAIN jobs |->
                  IF UnderPath(jobs[j], TempDir(cleaner.cur))
                  THEN [jobs[j] EXCEPT !.status = "error", !.error = Some("expired")]
                  ELSE jobs[j]]
    /\ cleaner' = CleanerNext(cleaner.todo, cleaner.cutoff)
    /\ UNCHANGED <<now, RATE_LIMIT_COUNT, API_KEY, rate_limit, nextId, disk, req,
                   worker, stream, dl, admitted>>

\* Lines 190-193: under jobs_lock, the records under the deleted path go.
CleanerPop ==
    /\ cleaner.pc = "pop"
    /\ jobs' = [j \in {k \in DOMAIN jobs : ~UnderPath(jobs[k], TempDir(cleaner.cur))} |-> jobs[j]]
    /\ cleaner' = CleanerNext(cleaner.todo, cleaner.cutoff)
    /\ UNCHANGED <<now, RATE_LIMIT_COUNT, API_KEY, rate_limit, nextId, disk, req,
                   worker, stream, dl, admitted>>

\* The cleaner without the inner try: the exception of an entry reaches the
\* outer handler and the rest of the listing is dropped.
CleanerStatFails_abort ==
    /\ cleaner.pc = "scan"
    /\ cleaner' = IdleCleaner
    /\ UNCHANGED <<now, RATE_LIMIT_COUNT, API_KEY, rate_limit, jobs, nextId, disk,
                   req, worker, stream, dl, admitted>>

\* Lines 183-184 and 194-195: os.path.getmtime raises for the entry; the
\* handler of the entry's try passes and the loop takes the next entry.
CleanerStatFails ==
    /\ cleaner.pc = "scan"
    /\ \E e \in cleaner.todo : cleaner' = CleanerNext(cleaner.todo \ {e}, cleaner.cutoff)
    /\ UNCHANGED <<now, RATE_LIMIT_COUNT, API_KEY, rate_limit, jobs, nextId, disk,
                   req, worker, stream, dl, admitted>>

\* Line 187: shutil.rmtree(path, ignore_errors=True) cannot delete the entry
\* and returns; the records are removed next all the same.
CleanerRemoveFails ==
    /\ cleaner.pc = "remove"
    /\ cleaner' = [cleaner EXCEPT !.pc = "pop"]
    /\ UNCHANGED <<now, RATE_LIMIT_COUNT, API_KEY, rate_limit, jobs, nextId, disk,
                   req, worker, stream, dl, admitted>>

\* Lines 181 and 196-198: os.listdir raises; the outer handler passes and the
\* loop sleeps again.
CleanerSweepFails ==
    /\ cleaner.pc = "sleep"
    /\ cleaner' = IdleCleaner
    /\ UNCHANGED <<now, RATE_LIMIT_COUNT, API_KEY, rate_limit, jobs, nextId, disk,
                   req, worker, stream, dl, admitted>>

\* --------------------------------------------------------------- /events
UnknownPayload ==
    [status |-> "unknown", progress |-> PlainProgress("unknown"), error |-> None,
     filename |-> None, size |-> None]
\* Lines 404-414: the snapshot read under jobs_lock.
Payload(j) ==
    IF j \notin DOMAIN jobs THEN UnknownPayload
    ELSE [status |-> jobs[j].status, progress |-> jobs[j].progress,
          error |-> IF jobs[j].status = "error" THEN jobs[j].error ELSE None,
          filename |-> jobs[j].filename, size |-> jobs[j].size]

\* A client opens /events/<job_id>, for an id that may not be in the table.
StreamOpen ==
    /\ stream.pc = "idle"
    /\ \E j \in JobIds : stream' = [IdleStream EXCEPT !.pc = "poll", !.job = j,
                                                      !.issued = j < nextId]
    /\ UNCHANGED <<now, RATE_LIMIT_COUNT, API_KEY, rate_limit, jobs, nextId, disk,
                   req, worker, cleaner, dl, admitted>>

\* The loop with the break ahead of the yield.
StreamPoll_silent ==
    /\ stream.pc = "poll"
    /\ LET payload == Payload(stream.job)
           emit == Some(payload) # stream.last /\ payload.status \notin {"ready", "error", "unknown"}
       IN  /\ emit => Len(stream.emitted) < MaxEvents
           /\ stream' = [pc |-> IF payload.status \in {"ready", "error", "unknown"}
                                THEN "closed" ELSE "poll",
                         job |-> stream.job, issued |-> stream.issued,
                         last |-> IF emit THEN Some(payload) ELSE stream.last,
                         emitted |-> IF emit THEN Append(stream.emitted, payload.status)
                                     ELSE stream.emitted]
    /\ UNCHANGED <<now, RATE_LIMIT_COUNT, API_KEY, rate_limit, jobs, nextId, disk,
                   req, worker, cleaner, dl, admitted>>

\* The loop without the comparison with the last event.
StreamPoll_always ==
    /\ stream.pc = "poll"
    /\ LET payload == Payload(stream.job)
           emit == TRUE
       IN  /\ emit => Len(stream.emitted) < MaxEvents
           /\ stream' = [pc |-> IF payload.status \in {"ready", "error"}
                                THEN "closed" ELSE "poll",
                         job |-> stream.job, issued |-> stream.issued,
                         last |-> IF emit THEN Some(payload) ELSE stream.last,
                         emitted |-> IF emit THEN Append(stream.emitted, payload.status)
                                     ELSE stream.emitted]
    /\ UNCHANGED <<now, RATE_LIMIT_COUNT, API_KEY, rate_limit, jobs, nextId, disk,
                   req, worker, cleaner, dl, admitted>>

\* The loop without the break on an absent record.
StreamPoll_open ==
    /\ stream.pc = "poll"
    /\ LET payload == Payload(stream.job)
           emit == Some(payload) # stream.last
       IN  /\ emit => Len(stream.emitted) < MaxEvents
           /\ stream' = [pc |-> IF payload.status \in {"ready", "error"}
                                THEN "closed" ELSE "poll",
                         job |-> stream.job, issued |-> stream.issued,
                         last |-> IF emit THEN Some(payload) ELSE stream.last,
                         emitted |-> IF emit THEN Append(stream.emitted, payload.status)
                                     ELSE stream.emitted]
    /\ UNCHANGED <<now, RATE_LIMIT_COUNT, API_KEY, rate_limit, jobs, nextId, disk,
                   req, worker, cleaner, dl, admitted>>

\* One turn of gen()'s loop, lines 403-421: json.dumps of two snapshots built
\* with the same keys differs exactly when the snapshots differ.
StreamPoll ==
    /\ stream.pc = "poll"
    /\ LET payload == Payload(stream.job)
           emit == Some(payload) # stream.last
       IN  /\ emit => Len(stream.emitted) < MaxEvents
           /\ stream' = [pc |-> IF payload.status \in {"ready", "error", "unknown"}
                                THEN "closed" ELSE "poll",
                         job |-> stream.job, issued |-> stream.issued,
                         last |-> IF emit THEN Some(payload) ELSE stream.last,
                         emitted |-> IF emit THEN Append(stream.emitted, payload.status)
                                     ELSE stream.emitted]
    /\ UNCHANGED <<now, RATE_LIMIT_COUNT, API_KEY, rate_limit, jobs, nextId, disk,
                   req, worker, cleaner, dl, admitted>>

\* ------------------------------------------------------------- /download
\* Lines 426-433: the lookup under jobs_lock.
DownloadLookup ==
    /\ dl.pc = "idle"
    /\ \E j \in JobIds :
          IF j \notin DOMAIN jobs
          THEN dl' = [IdleDl EXCEPT !.job = j, !.code = 404, !.seen = "absent"]
          ELSE IF jobs[j].status # "ready" \/ jobs[j].filepath = None
          THEN dl' = [IdleDl EXCEPT !.job = j, !.code = 400, !.seen = jobs[j].status]
          ELSE dl' = [pc |-> "send", job |-> j, filepath |-> jobs[j].filepath,
                      filename |-> IF jobs[j].filename # None THEN jobs[j].filename
                                   ELSE Basename(jobs[j].filepath),
                      code |-> 0, seen |-> jobs[j].status]
    /\ UNCHANGED <<now, RATE_LIMIT_COUNT, API_KEY, rate_limit, jobs, nextId, disk,
                   req, worker, cleaner, stream, admitted>>

\* Lines 435-438: send_file, outside the lock: the file is sent (200), or
\* send_file raises because the path is gone (500).
DownloadSend ==
    /\ dl.pc = "send"
    /\ dl' = [dl EXCEPT !.pc = "idle", !.code = IF FilesAt(dl.filepath) # {} THEN 200 ELSE 500]
    /\ UNCHANGED <<now, RATE_LIMIT_COUNT, API_KEY, rate_limit, jobs, nextId, disk,
                   req, worker, cleaner, stream, admitted>>

\* ----------------------------------------------------------------- Next
\* The download pipeline: the clock, /start requests for a reel from the
\* clients ips (at most pool of them admitted), the workers and the cleaner.
Pipeline(ips, pool) ==
    \/ Tick
    \/ \E t \in Serial, ip \in ips : Start(t, ip, None, ReelUrl, pool)
    \/ \E j \in JobIds : WorkerStart(j) \/ EngineRaises(j) \/ EngineReturns(j) \/ WorkerFinish(j)
    \/ CleanerSweep \/ CleanerStat \/ CleanerRemove \/ CleanerPop

Next == Pipeline({"10.0.0.1"}, MaxPipeline)

Spec == Init /\ [][Next]_vars

\* The pipeline with the engine's progress callbacks and a client on /events.
NextEvents ==
    \/ Pipeline({"10.0.0.1"}, MaxPipeline)
    \/ \E j \in JobIds : ProgressHook(j)
    \/ StreamOpen \/ StreamPoll

SpecEvents == Init /\ [][NextEvents]_vars

\* The pipeline with a client on /download.
NextDownload ==
    \/ Pipeline({"10.0.0.1"}, MaxPipeline)
    \/ DownloadLookup \/ DownloadSend

SpecDownload == Init /\ [][NextDownload]_vars

\* /start alone: requests of several clients, handled one at a time, under
\* every configured ceiling and with and without a configured API key.
InitStart ==
    /\ now = 0
    /\ RATE_LIMIT_COUNT \in 1..MaxCeiling
    /\ API_KEY \in {None, Some("k1")}
    /\ rate_limit = [c \in Clients |-> <<>>]
    /\ jobs = <<>>
    /\ nextId = 1
    /\ disk = <<>>
    /\ req = [t \in Threads |-> IdleReq]
    /\ worker = [j \in JobIds |-> IdleWorker]
    /\ cleaner = IdleCleaner
    /\ stream = IdleStream
    /\ dl = IdleDl
    /\ admitted = [c \in Clients |-> <<>>]

NextStart ==
    \/ Tick
    \/ \E t \in Serial, ip \in Clients, key \in Keys, url \in Urls :
          Start(t, ip, key, url, MaxJobs)

SpecStart == InitStart /\ [][NextStart]_vars

\* /start on two request threads (the server handles each request on a thread
\* of its own), with the clock.
NextRace ==
    \/ Tick
    \/ \E t \in Threads, ip \in Clients : StartCheck(t, ip, None, ReelUrl)
    \/ \E t \in Threads : StartAdmit(t, MaxJobs)

SpecRace == InitStart /\ [][NextRace]_vars

\* The pipeline with every thread scheduled: a started worker thread runs, the
\* engine call returns or raises, and the cleaner's loop goes on.
Fairness ==
    /\ \A j \in JobIds :
          /\ WF_vars(WorkerStart(j))
          /\ WF_vars(EngineRaises(j) \/ EngineReturns(j))
          /\ WF_vars(WorkerFinish(j))
    /\ WF_vars(CleanerSweep) /\ WF_vars(CleanerStat)
    /\ WF_vars(CleanerRemove) /\ WF_vars(CleanerPop)

SpecLive == Init /\ [][Next]_vars /\ Fairness

\* The pipeline with a cleaner whose reads and deletions may fail; the
\* cleaner's thread is scheduled, and a sweep that can list the root does.
NextJanitor ==
    \/ Pipeline({"10.0.0.1"}, MaxPipeline)
    \/ CleanerStatFails \/ CleanerRemoveFails \/ CleanerSweepFails

FairJanitor ==
    /\ WF_vars(CleanerSweep)
    /\ WF_vars(CleanerStat \/ CleanerStatFails)
    /\ WF_vars(CleanerRemove \/ CleanerRemoveFails)
    /\ WF_vars(CleanerPop)

SpecJanitor == Init /\ [][NextJanitor]_vars /\ FairJanitor

\* The pipeline for as many jobs as there are ids.
NextJobs == Pipeline({"10.0.0.1"}, MaxJobs)

SpecJobs == Init /\ [][NextJobs]_vars

\* =============================================================== claims
\* Admitted timestamps of client c that lie inside the window that ends now.
CountInWindow(c) ==
    Cardinality({i \in 1..Len(admitted[c]) : now - admitted[c][i] < RATE_LIMIT_WINDOW})

\* C1: with the requests handled one at a time, under every ceiling N, a
\* request that gets 429 comes from a client with at least N admitted
\* timestamps inside the trailing window, and a request that gets 200 comes
\* from a client with fewer than N and adds the current time to that client's
\* admitted timestamps.  So after N admissions inside the window the next
\* request is never admitted, and once the window has passed over them the
\* next request is never refused for its rate.
C1_RateLimit ==
    [][\A t \in Threads : req'[t] # req[t] =>
          LET r == req'[t]
          IN  /\ r.code = 429 => /\ CountInWindow(r.ip) >= RATE_LIMIT_COUNT
                                 /\ admitted' = admitted /\ rate_limit' = rate_limit
              /\ r.code = 200 => /\ CountInWindow(r.ip) < RATE_LIMIT_COUNT
                                 /\ admitted' = [admitted EXCEPT ![r.ip] = Append(@, now)]]_vars

\* C1 witness: ceiling 1: a client admitted at time 0 is admitted again at
\* time 2, the window over, and its next request at time 2 is refused.
C1_Witness ==
    \E c \in Clients :
        /\ RATE_LIMIT_COUNT = 1 /\ now = 2 /\ admitted[c] = <<0, 2>>
        /\ req[1].code = 429 /\ req[1].ip = c

\* C2: in every state the queued-or-running jobs of one client number at most
\* the cap RATE_LIMIT_CONCURRENT (a submission beyond the cap is refused).
C2_ConcurrencyCap ==
    \A c \in Clients :
        Cardinality({j \in DOMAIN jobs : jobs[j].ip = c /\ jobs[j].status \in {"queued", "running"}})
            <= RATE_LIMIT_CONCURRENT

\* The host is instagram.com or one of its subdomains.
InstagramHost(url) ==
    \/ Lower(url.netloc) = <<"i", "n", "s", "t", "a", "g", "r", "a", "m", ".", "c", "o", "m">>
    \/ IsSuffix(<<".", "i", "n", "s", "t", "a", "g", "r", "a", "m", ".", "c", "o", "m">>, Lower(url.netloc))

\* C4: a /start request answered 401, 400 or 429 leaves the job table, the
\* workers and the id counter as they were; 401 is the answer exactly when a
\* key is configured and the request's key is not it; a request answered 200
\* carried an acceptable key and an http(s) URL on an Instagram host, was
\* under the rate ceiling, and added exactly one record, with status queued,
\* and its worker; the table changes in no other way.
C4_RejectedCreatesNothing ==
    [][/\ \A t \in Threads : req'[t] # req[t] =>
             LET r == req'[t]
                 badkey == API_KEY # None /\ r.key # API_KEY
             IN  /\ r.code \in {200, 400, 401, 429}
                 /\ r.code \in {400, 401, 429} =>
                        jobs' = jobs /\ worker' = worker /\ nextId' = nextId
                 /\ r.code = 401 <=> badkey
                 /\ r.code = 400 => ~r.url.given \/ ~is_valid_instagram_url(r.url)
                 /\ r.code = 200 =>
                        /\ r.url.given /\ r.url.scheme \in {"http", "https"}
                        /\ InstagramHost(r.url)
                        /\ CountInWindow(r.ip) < RATE_LIMIT_COUNT
                        /\ DOMAIN jobs' = DOMAIN jobs \cup {nextId} /\ nextId \notin DOMAIN jobs
                        /\ jobs'[nextId].status = "queued" /\ jobs'[nextId].ip = r.ip
                        /\ \A j \in DOMAIN jobs : jobs'[j] = jobs[j]
                        /\ worker' = [worker EXCEPT ![nextId].pc = "start"]
       /\ jobs' # jobs => \E t \in Threads : req'[t] # req[t] /\ req'[t].code = 200]_vars

\* C4 witness: with a job in the table, a request for a URL on another host
\* has been answered 400.
C4_Witness ==
    /\ req[1].code = 400 /\ req[1].url.given /\ ~InstagramHost(req[1].url)
    /\ DOMAIN jobs = {1} /\ jobs[1].status = "queued"

\* The entry whose mtime a step of the sweep reads.
StatEntry == CHOOSE e \in cleaner.todo : e \notin cleaner'.todo
\* A step of the cleaner that leaves position pc.
CleanerStep(pc) == cleaner.pc = pc /\ cleaner' # cleaner

C6_SweepFrame ==
    [][/\ CleanerStep("sleep") => disk' = disk /\ jobs' = jobs
       /\ CleanerStep("scan") =>
             /\ disk' = disk /\ jobs' = jobs
             /\ cleaner'.pc = "remove" =>
                    /\ cleaner'.cur \in DOMAIN disk
                    /\ disk[cleaner'.cur].mtime < now - RETENTION
       /\ CleanerStep("remove") =>
             /\ jobs' = jobs
             /\ \A e \in DOMAIN disk \ {cleaner.cur} : e \in DOMAIN disk' /\ disk'[e] = disk[e]
       /\ CleanerStep("pop") =>
             /\ disk' = disk
             /\ \A j \in DOMAIN jobs :
                    (/\ jobs[j].temp_dir # TempDir(cleaner.cur)
                     /\ ~IsPrefix(TempDir(cleaner.cur), jobs[j].filepath))
                        => j \in DOMAIN jobs' /\ jobs'[j] = jobs[j]]_vars

\* C6 witness: a sweep is over that has deleted the leftover entry, and job 1,
\* whose working directory it found younger than the retention, still has its
\* directory, its file and its ready record.
C6_Witness ==
    /\ cleaner.pc = "sleep" /\ DOMAIN disk = {1} /\ disk[1].files # {}
    /\ 1 \in DOMAIN jobs /\ jobs[1].status = "ready" /\ jobs[1].size # None

\* The worker of job j has returned after the engine raised exc.
HandledEngineError(j) == worker[j].pc \in {"done", "crashed"} /\ worker[j].exc # NoExc
\* The text of an engine error has one of the eight keywords in it.
HasLoginKeyword(msg) ==
    \E k \in login_keywords : \E i \in 0..Len(msg) : \E n \in 0..Len(msg) - i :
        SubSeq(Lower(msg), i + 1, i + n) = k

\* C7: whenever the engine call has raised and its handler has run, the
\* worker has written the outcome to the job's record and returned, so the job
\* ended with status error; its message is the authentication message when
\* the error's text has one of the keywords in it and the generic message
\* when it has none (the record keeps both while it is in the table).
C7_FailureClassification ==
    \A j \in JobIds : HandledEngineError(j) /\ worker[j].exc.type # "FileNotFoundError" =>
        /\ worker[j].pc = "done"
        /\ j \in DOMAIN jobs => /\ jobs[j].status = "error"
                                /\ jobs[j].error = Some(IF HasLoginKeyword(worker[j].exc.msg)
                                                        THEN AUTH_TEXT ELSE GENERIC_TEXT)

\* C8: whenever the engine call has raised FileNotFoundError and the worker
\* has returned, a job still in the table has status error and the
\* transcoder-not-found message.
C8_MissingTranscoder ==
    \A j \in DOMAIN jobs :
        HandledEngineError(j) /\ worker[j].pc = "done" /\ worker[j].exc.type = "FileNotFoundError" =>
            jobs[j].status = "error" /\ jobs[j].error = Some(FFMPEG_TEXT)

\* C10: in every state a record with status ready has its result path, its
\* file name and its size, and a record with another status has no result
\* path.
C10_ReadyHasResult ==
    \A j \in DOMAIN jobs :
        IF jobs[j].status = "ready"
        THEN jobs[j].filepath # None /\ jobs[j].filename # None /\ jobs[j].size # None
        ELSE jobs[j].filepath = None

\* The place of a status in the walk queued, running, then ready or error.
StatusRank(st) == CASE st = "queued" -> 0 [] st = "running" -> 1 [] OTHER -> 2

\* C3: the statuses a stream on an issued job id emits are among queued,
\* running, ready and error, never go back in the order queued, running,
\* ready-or-error, and never include both ready and error.
C3_StatusWalk ==
    stream.issued =>
        /\ \A i \in 1..Len(stream.emitted) :
              /\ stream.emitted[i] \in {"queued", "running", "ready", "error"}
              /\ \A k \in i..Len(stream.emitted) :
                    StatusRank(stream.emitted[i]) <= StatusRank(stream.emitted[k])
        /\ ~(\E i, k \in 1..Len(stream.emitted) :
                stream.emitted[i] = "ready" /\ stream.emitted[k] = "error")

\* C3 amended: the statuses a stream emits are queued and running, in that
\* order, each any number of times, followed by at most one closing status,
\* which is ready, error or unknown; so no stream carries two of ready, error
\* and unknown.
C3_StatusWalkUnknown ==
    \A i \in 1..Len(stream.emitted) :
        /\ stream.emitted[i] \in {"queued", "running", "ready", "error", "unknown"}
        /\ i < Len(stream.emitted) =>
              /\ stream.emitted[i] \in {"queued", "running"}
              /\ StatusRank(stream.emitted[i]) <= StatusRank(stream.emitted[i + 1])

\* C3 witness: a stream has seen its job queued and running and then, the
\* record removed, closed with unknown.
C3_Witness ==
    /\ stream.pc = "closed" /\ Len(stream.emitted) >= 3
    /\ stream.emitted[1] = "queued" /\ stream.emitted[2] = "running"
    /\ stream.emitted[Len(stream.emitted)] = "unknown"

\* C9: a /download request is answered 404 exactly when the id is not in the
\* table at the lookup, 400 when the record is there and not ready (or has no
\* result path), and with the file when the record is ready; the file is
\* sent for no record that is queued, running or in error at the lookup.
C9_Download ==
    dl.pc = "idle" /\ dl.code # 0 =>
        /\ dl.code = 404 <=> dl.seen = "absent"
        /\ dl.seen \in {"queued", "running", "error"} => dl.code = 400
        /\ dl.seen = "ready" => dl.code \in {200, 400}
        /\ dl.code = 200 => dl.seen = "ready"

\* A step of the stream's loop that emits an event.
Emits == Len(stream'.emitted) > Len(stream.emitted)

\* C11: a poll whose snapshot equals the last emitted one emits nothing and
\* leaves the last emitted snapshot as it is; a poll that emits, emits the
\* snapshot it has just read, which differs from the last emitted one, and
\* exactly one event; so no two consecutive events carry the same snapshot.
C11_Deduplication ==
    [][stream.pc = "poll" /\ stream' # stream =>
          IF stream.last = Some(Payload(stream.job))
          THEN stream'.emitted = stream.emitted /\ stream'.last = stream.last
          ELSE /\ stream'.emitted = Append(stream.emitted, Payload(stream.job).status)
               /\ stream'.last = Some(Payload(stream.job))
               /\ stream'.last # stream.last]_vars

\* C11 witness: a stream has emitted two running events in a row (their
\* progress differs) and its next poll will read the snapshot it emitted last.
C11_Witness ==
    /\ stream.pc = "poll" /\ Len(stream.emitted) >= 2
    /\ stream.emitted[Len(stream.emitted)] = "running"
    /\ stream.emitted[Len(stream.emitted) - 1] = "running"
    /\ stream.last = Some(Payload(stream.job))

\* The statuses that close a stream.
Closing == {"ready", "error", "unknown"}

\* C12: a stream that has ended has emitted exactly one event whose status is
\* ready, error or unknown, and it is its last event; a stream that has not
\* ended has emitted none; a poll ends the stream exactly when the status it
\* reads is one of the three, so not while it reads queued or running; the
\* first poll of a stream whose job id is not in the table emits the single
\* event unknown and ends the stream.
C12_TerminalClose ==
    /\ [](/\ stream.pc = "closed" =>
                /\ stream.emitted # <<>>
                /\ stream.emitted[Len(stream.emitted)] \in Closing
          /\ \A i \in 1..Len(stream.emitted) :
                stream.emitted[i] \in Closing => i = Len(stream.emitted) /\ stream.pc = "closed")
    /\ [][stream.pc = "poll" /\ stream' # stream =>
             /\ stream'.pc = "closed" <=> Payload(stream.job).status \in Closing
             /\ Payload(stream.job).status \in {"queued", "running"} => stream'.pc = "poll"
             /\ stream.job \notin DOMAIN jobs /\ stream.emitted = <<>> =>
                    stream'.emitted = <<"unknown">> /\ stream'.pc = "closed"]_vars

\* C12 witness: a stream has followed its job through queued and running and
\* has ended with the event ready.
C12_Witness ==
    /\ stream.pc = "closed" /\ Len(stream.emitted) >= 3
    /\ stream.emitted[1] = "queued" /\ stream.emitted[2] = "running"
    /\ stream.emitted[Len(stream.emitted)] = "ready"

\* C13: no worker ever ends with an uncaught exception: an exception raised
\* inside run_download_job, also by a write to a record that is no longer in
\* the table, ends in the generic error status.
C13_WorkerNeverCrashes ==
    \A j \in JobIds : worker[j].pc # "crashed"

\* A step of a progress callback: the table or a worker's skipped mark changes
\* and no request, worker position or cleaner moves.
HookStep ==
    /\ jobs' # jobs \/ \E j \in JobIds : worker'[j].skipped # worker[j].skipped
    /\ req' = req /\ cleaner' = cleaner
    /\ \A j \in JobIds : worker'[j].pc = worker[j].pc

\* C14: a progress callback for a job id that is not in the table returns
\* with the table unchanged (the record is not created again); a callback for
\* a job in the table changes nothing of the table but that job's progress
\* field.
C14_HookGated ==
    [][HookStep =>
          \E j \in JobIds :
              /\ worker[j].pc = "engine"
              /\ IF j \notin DOMAIN jobs
                 THEN jobs' = jobs /\ worker'[j].skipped
                 ELSE /\ worker' = worker
                      /\ jobs' = [jobs EXCEPT ![j].progress = jobs'[j].progress]]_vars

\* C14 witness: the engine's callback has been called for a job whose record
\* the cleaner had removed, and the id is not in the table.
C14_Witness ==
    \E j \in JobIds : worker[j].skipped /\ worker[j].pc = "engine" /\ j \notin DOMAIN jobs

\* C15: with the requests of a client on separate threads, no admitted
\* timestamp is lost from the client's stored list once the threads are done,
\* and the admitted requests of one client whose timestamps lie in the
\* trailing window never number more than the ceiling.
C15_CeilingUnderConcurrency ==
    \A c \in Clients :
        /\ CountInWindow(c) <= RATE_LIMIT_COUNT
        /\ (\A t \in Threads : req[t].pc = "idle") =>
               \A i \in 1..Len(admitted[c]) :
                   now - admitted[c][i] < RATE_LIMIT_WINDOW =>
                       Cardinality({k \in 1..Len(rate_limit[c]) : rate_limit[c][k] = admitted[c][i]})
                           >= Cardinality({k \in 1..Len(admitted[c]) : admitted[c][k] = admitted[c][i]})

\* C16: while a job's status is running, a step that changes or removes its
\* record is a step of its own worker or of its progress callback, and no
\* step removes its working directory: the cleaner removes the record or the
\* directory only of a job that is ready or in error.
C16_RunningIsOwned ==
    [][\A j \in DOMAIN jobs : jobs[j].status = "running" =>
          /\ j \notin DOMAIN jobs' \/ jobs'[j] # jobs[j] =>
                 /\ cleaner' = cleaner
                 /\ worker'[j] # worker[j] \/ HookStep
          /\ j \in DOMAIN disk => j \in DOMAIN disk']_vars

\* The changes of status the job state machine allows.
StatusMoves == {<<"queued", "running">>, <<"running", "ready">>, <<"running", "error">>}

\* C17: a record enters the table with status queued; every change of the
\* status of a record in the table is queued to running, running to ready or
\* running to error; once the status is ready or error, no step changes the
\* status, the result path, the file name, the size or the error message of
\* the record while it is in the table.
C17_StateMachine ==
    [][/\ \A j \in DOMAIN jobs' \ DOMAIN jobs : jobs'[j].status = "queued"
       /\ \A j \in DOMAIN jobs \cap DOMAIN jobs' :
             /\ jobs'[j].status # jobs[j].status =>
                    <<jobs[j].status, jobs'[j].status>> \in StatusMoves
             /\ jobs[j].status \in {"ready", "error"} =>
                    /\ jobs'[j].status = jobs[j].status
                    /\ jobs'[j].filepath = jobs[j].filepath
                    /\ jobs'[j].filename = jobs[j].filename
                    /\ jobs'[j].size = jobs[j].size
                    /\ jobs'[j].error = jobs[j].error]_vars

\* C17 witness: a job went from queued through running to ready, and its
\* ready record has outlived a sweep that removed another entry.
C17_Witness ==
    /\ 1 \in DOMAIN jobs /\ jobs[1].status = "ready" /\ worker[1].pc = "done"
    /\ 0 \notin DOMAIN disk /\ cleaner.pc = "sleep" /\ now = MaxTime

\* C18: every job record in the table is eventually a record with status
\* ready or error: no job stays queued or running for ever, and none leaves
\* the table before it has been ready or in error.
C18_EveryJobTerminates ==
    \A j \in JobIds :
        (j \in DOMAIN jobs) ~> (j \in DOMAIN jobs /\ jobs[j].status \in {"ready", "error"})

\* C19: the cleaner's loop never ends: whatever fails, a step of the sweep
\* that handles an entry, read or not, deleted or not, drops only that entry
\* from the listing and goes on with the rest, sleeping only when the listing
\* is done; every sweep ends in the sleep of the loop, and from the sleep,
\* with an entry in the root, a sweep starts again.
C19_JanitorBestEffort ==
    /\ [](cleaner.pc \in {"sleep", "scan", "remove", "pop"})
    /\ [][cleaner' # cleaner =>
             /\ cleaner.pc = "scan" =>
                    \E e \in cleaner.todo :
                        /\ cleaner'.todo = cleaner.todo \ {e}
                        /\ \/ cleaner'.pc = "remove" /\ cleaner'.cur = e
                           \/ cleaner'.pc = (IF cleaner'.todo = {} THEN "sleep" ELSE "scan")
             /\ cleaner.pc = "remove" => cleaner'.pc = "pop" /\ cleaner'.todo = cleaner.todo
             /\ cleaner.pc = "pop" =>
                    /\ cleaner'.todo = cleaner.todo
                    /\ cleaner'.pc = (IF cleaner.todo = {} THEN "sleep" ELSE "scan")]_vars
    /\ (cleaner.pc # "sleep") ~> (cleaner.pc = "sleep")
    /\ (cleaner.pc = "sleep" /\ DOMAIN disk # {}) ~> (cleaner.pc = "scan" \/ DOMAIN disk = {})

\* C19 witness: the leftover entry, older than the cutoff, has been handled
\* by the sweep and is still on the disk, its read or its deletion having
\* failed, and the sweep goes on with the directory of job 1.
C19_Witness ==
    /\ cleaner.pc = "scan" /\ cleaner.todo = {1}
    /\ 0 \in DOMAIN disk /\ disk[0].mtime < cleaner.cutoff

\* C20: every id in the table has been issued by /start, the ids /start
\* issues only grow, and an id enters the table only as the new id of a
\* /start request that is answered in the same step; so an id the cleaner has
\* taken out of the table is never in it again, whatever the job's worker
\* writes afterwards.
C20_NoResurrection ==
    /\ [](\A j \in DOMAIN jobs : j < nextId)
    /\ [][/\ nextId' >= nextId
          /\ \A j \in DOMAIN jobs' \ DOMAIN jobs :
                /\ j = nextId /\ nextId' = nextId + 1
                /\ \E t \in Threads : req'[t] # req[t] /\ req'[t].code = 200]_vars

\* C20 witness: the cleaner has removed job 1 while it was running, its
\* worker has since tried to write its outcome, and /start has issued id 2.
C20_Witness ==
    /\ 1 \notin DOMAIN jobs /\ worker[1].pc = "crashed"
    /\ 2 \in DOMAIN jobs /\ nextId = 3

=============================================================================
